---- MODULE Spec2Model ----
(***************************************************************************)
(* Model of the local-hub Farcaster plugin (src/src/index.ts): the module  *)
(* state, initialization, the two self-rescheduling timer lanes, the       *)
(* interaction cycle with its suspension points on hub calls, the daily    *)
(* reset of the quota/dedup ledger, and shutdown.                          *)
(*                                                                         *)
(* One action is one run-to-suspension segment of the JavaScript event     *)
(* loop: a timer callback or the continuation of an awaited hub call,      *)
(* together with every microtask it triggers.                              *)
(***************************************************************************)
EXTENDS Integers, Sequences, FiniteSets, TLC

\* ------------------------------------------------------------------ bounds
\* Longest list of casts a hub response carries in the model.
MaxLen == 2
\* Number of half-day advances of the wall clock.
MaxTicks == 2
\* The epoch converter is exercised on -MaxEpochInput .. MaxEpochInput.
MaxEpochInput == 30
\* Longest text, in fragments, the relevance classifier is exercised on.
MaxFragments == 3
\* Longest list of messages a hub response to getMentions carries on its own.
MaxMessages == 3

\* --------------------------------------------------------------- constants
FARCASTER_EPOCH == 1609459200
SecondsPerDay == 86400
FetchLimit == 10

\* ------------------------------------------------------------------- state
VARIABLES
  agentRuntime,     \* the runtime handed to init (its settings), or Null
  localConfig,      \* the configuration + ledger record, or Null
  hubClient,        \* "null" | "client"   (write collaborator)
  hubApiClient,     \* "null" | "client"   (read collaborator)
  interactionTimer, \* "null" | "handle"   (module variable)
  postTimer,        \* "null" | "handle"   (module variable)
  timers,           \* one-shot timers armed in the event loop and not yet fired
  initPc,           \* position of initializeFarcaster
  cycles,           \* the interaction cycles in progress, by the callback that started them
  now,              \* wall clock, Unix seconds
  ticks,            \* clock advances so far
  stopped,          \* stopFarcaster() has returned
  likeLog,          \* likes handed to hubClient.likeCast since the last daily reset
  likeOutcomes,     \* how the hub ends a hubClient.likeCast: "ok", "error" (it throws)
  epochIn,          \* epoch converter harness: the input
  epochOut,         \* epoch converter harness: what was applied and its result
  relevanceIn,      \* relevance classifier harness: the text
  relevanceOut,     \* relevance classifier harness: the bucket returned, or "none"
  mentionsIn,       \* getMentions harness: the hub's response and the limit
  mentionsOut       \* getMentions harness: whether it has returned, and the casts

ctlVars == <<agentRuntime, localConfig, hubClient, hubApiClient, interactionTimer,
             postTimer, timers, initPc, cycles, now, ticks, stopped, likeLog, likeOutcomes>>
epochVars == <<epochIn, epochOut>>
relevanceVars == <<relevanceIn, relevanceOut>>
mentionsVars == <<mentionsIn, mentionsOut>>
harnessVars == <<epochVars, relevanceVars, mentionsVars>>
vars == <<ctlVars, harnessVars>>

Null == [null |-> TRUE]

\* ------------------------------------------------------ epoch conversion
\* Mutant: the epoch offset is left out.
farcasterToUnixUnconverted(farcasterTimestamp) == farcasterTimestamp

farcasterToUnix(farcasterTimestamp) == farcasterTimestamp + FARCASTER_EPOCH

unixToFarcaster(unixTimestamp) == unixTimestamp - FARCASTER_EPOCH

\* ------------------------------------------------------------ the casts
\* The casts the hub can return. A cast is immutable and identified by its
\* hash, so lists carry hashes and the attributes are looked up.
StartNow == 19675 * SecondsPerDay
TickSeconds == SecondsPerDay \div 2

Hashes == {"0xa1", "0xb2", "0xc3", "0xd4"}

\* 0xc3 is written by the configured identity itself.
CastFid(h) == IF h = "0xc3" THEN 7 ELSE 9

\* Protocol-epoch seconds. 0xa1 is 13.5 days old at StartNow (it crosses the
\* 14-day limit while the clock advances), 0xd4 is 20 days old.
CastTimestamp(h) ==
  CASE h = "0xa1" -> unixToFarcaster(StartNow - 13 * SecondsPerDay - TickSeconds)
    [] h = "0xb2" -> unixToFarcaster(StartNow - 1 * SecondsPerDay)
    [] h = "0xc3" -> unixToFarcaster(StartNow - 2 * SecondsPerDay)
    [] h = "0xd4" -> unixToFarcaster(StartNow - 20 * SecondsPerDay)
    [] h = "0xe5" -> unixToFarcaster(StartNow - 3 * SecondsPerDay)

\* The text of a cast: a string is the sequence of its characters.
CastText(h) ==
  CASE h = "0xa1" -> <<"E", "t", "h", "e", "r", "e", "u", "m">>
    [] h = "0xb2" -> <<"A", "i", "r", "d", "r", "o", "p">>
    [] h = "0xc3" -> <<"D", "e", "F", "i", " ", "n", "f", "t">>
    [] h = "0xd4" -> <<"c", "r", "y", "p", "t", "o", " ", "v", "o", "t", "e", " ", "c", "o", "m", "m", "u", "n", "i", "t", "y">>

\* ---------------------------------------------------------------- settings
\* runtime.getSetting(key) || process.env[key] || defaultVal: an unset or
\* empty setting yields the default.
getSetting(runtime, key, defaultVal) ==
  IF runtime[key] = "" THEN defaultVal ELSE runtime[key]

\* parseInt on the decimal strings the model's settings use.
parseInt(s) ==
  CASE s = "0" -> 0
    [] s = "1" -> 1
    [] s = "2" -> 2
    [] s = "3" -> 3
    [] s = "7" -> 7
    [] s = "14" -> 14
    [] s = "15" -> 15
    [] s = "30" -> 30

\* The daily caps a runtime sets: MAX_DAILY_REPLIES, MAX_DAILY_LIKES and
\* MAX_DAILY_POSTS (unset: the default 3; "0": a cap that is reached at once).
DailyCaps == {<<"2", "1", "">>, <<"1", "2", "0">>}

\* The runtimes init can be handed.
Runtimes ==
  {[r EXCEPT !.MAX_DAILY_REPLIES = caps[1],
             !.MAX_DAILY_LIKES = caps[2],
             !.MAX_DAILY_POSTS = caps[3]] :
     r \in [FARCASTER_FID : {"", "0", "7"},
            FARCASTER_PRIVATE_KEY : {"", "0xkey"},
            FARCASTER_DRY_RUN : {"", "true"},
            ENABLE_INTERACTIONS : {"", "false"},
            ENABLE_DIRECT_POSTING : {"", "true"},
            MAX_DAILY_REPLIES : {""},
            MAX_DAILY_LIKES : {""},
            MAX_DAILY_POSTS : {""},
            MAX_CAST_AGE_DAYS : {""}],
     caps \in DailyCaps}

\* Mutant: the flag is compared with a literal the setting never has.
parseDryRunWrongLiteral(runtime) == getSetting(runtime, "FARCASTER_DRY_RUN", "false") = "1"

parseDryRun(runtime) == getSetting(runtime, "FARCASTER_DRY_RUN", "false") = "true"

parseEnableInteractions(runtime) ==
  getSetting(runtime, "ENABLE_INTERACTIONS", "true") # "false"

parseEnableDirectPosting(runtime) ==
  getSetting(runtime, "ENABLE_DIRECT_POSTING", "false") = "true"

\* new Date().toDateString(): the calendar day of the wall clock.
toDateString(t) == t \div SecondsPerDay

\* The localConfig object initializeFarcaster builds.
buildConfig(runtime, t) ==
  [fid |-> parseInt(getSetting(runtime, "FARCASTER_FID", "0")),
   privateKey |-> getSetting(runtime, "FARCASTER_PRIVATE_KEY", ""),
   dryRun |-> parseDryRun(runtime),
   enableInteractions |-> parseEnableInteractions(runtime),
   enableDirectPosting |-> parseEnableDirectPosting(runtime),
   maxDailyReplies |-> parseInt(getSetting(runtime, "MAX_DAILY_REPLIES", "15")),
   maxDailyLikes |-> parseInt(getSetting(runtime, "MAX_DAILY_LIKES", "30")),
   maxDailyPosts |-> parseInt(getSetting(runtime, "MAX_DAILY_POSTS", "3")),
   maxCastAge |-> parseInt(getSetting(runtime, "MAX_CAST_AGE_DAYS", "14")) * SecondsPerDay,
   repliedToHashes |-> {},
   likedHashes |-> {},
   dailyReplies |-> 0,
   dailyLikes |-> 0,
   dailyPosts |-> 0,
   lastResetDate |-> toDateString(t)]

\* Mutant: only the identity is validated.
missingRequiredConfigFidOnly(cfg) == cfg.fid = 0

\* if (!fid) return; if (!privateKey) return;
missingRequiredConfig(cfg) == cfg.fid = 0 \/ cfg.privateKey = ""

\* ------------------------------------------------------------------ ledger
\* Mutant: the liked set survives the reset.
resetKeepsLikedHashes(cfg, t) ==
  IF cfg # Null /\ cfg.lastResetDate # toDateString(t)
  THEN [cfg EXCEPT !.dailyReplies = 0,
                   !.dailyLikes = 0,
                   !.dailyPosts = 0,
                   !.lastResetDate = toDateString(t),
                   !.repliedToHashes = {}]
  ELSE cfg

resetDailyCountersIfNeeded(cfg, t) ==
  IF cfg # Null /\ cfg.lastResetDate # toDateString(t)
  THEN [cfg EXCEPT !.dailyReplies = 0,
                   !.dailyLikes = 0,
                   !.dailyPosts = 0,
                   !.lastResetDate = toDateString(t),
                   !.repliedToHashes = {},
                   !.likedHashes = {}]
  ELSE cfg

\* --------------------------------------------------------------- relevance
UpperCaseLetters ==
  <<"A", "B", "C", "D", "E", "F", "G", "H", "I", "J", "K", "L", "M", "N", "O", "P", "Q", "R", "S", "T", "U", "V", "W", "X", "Y", "Z">>

LowerCaseLetters ==
  <<"a", "b", "c", "d", "e", "f", "g", "h", "i", "j", "k", "l", "m", "n", "o", "p", "q", "r", "s", "t", "u", "v", "w", "x", "y", "z">>

\* String.prototype.toLowerCase on the letters A-Z; other characters are kept.
toLowerCase(text) ==
  [i \in DOMAIN text |->
     IF \E k \in DOMAIN UpperCaseLetters : UpperCaseLetters[k] = text[i]
     THEN LowerCaseLetters[CHOOSE k \in DOMAIN UpperCaseLetters : UpperCaseLetters[k] = text[i]]
     ELSE text[i]]

\* String.prototype.includes: kw occurs in text as a substring.
includes(text, kw) ==
  \E o \in 0..(Len(text) - Len(kw)) : SubSeq(text, o + 1, o + Len(kw)) = kw

highKeywords ==
  <<<<"e", "t", "h", "e", "r", "e", "u", "m">>,
    <<"d", "e", "f", "i">>,
    <<"w", "e", "b", "3">>,
    <<"n", "f", "t">>,
    <<"c", "r", "y", "p", "t", "o">>,
    <<"b", "l", "o", "c", "k", "c", "h", "a", "i", "n">>,
    <<"d", "a", "p", "p">>,
    <<"s", "m", "a", "r", "t", " ", "c", "o", "n", "t", "r", "a", "c", "t">>>>

mediumKeywords ==
  <<<<"a", "i", "r", "d", "r", "o", "p">>,
    <<"t", "r", "e", "a", "s", "u", "r", "y">>,
    <<"p", "r", "o", "p", "o", "s", "a", "l">>,
    <<"v", "o", "t", "e">>,
    <<"c", "o", "m", "m", "u", "n", "i", "t", "y">>,
    <<"d", "e", "c", "e", "n", "t", "r", "a", "l", "i", "z", "e", "d">>,
    <<"w", "e", "b", "3">>>>

\* Mutant: one medium keyword is enough for "medium".
evaluateRelevanceOneMedium(text) ==
  LET lowerText == toLowerCase(text)
      highMatches == Cardinality({k \in DOMAIN highKeywords : includes(lowerText, highKeywords[k])})
      mediumMatches ==
        Cardinality({k \in DOMAIN mediumKeywords : includes(lowerText, mediumKeywords[k])})
  IN IF highMatches >= 1 THEN "high"
     ELSE IF mediumMatches >= 1 THEN "medium"
     ELSE "low"

\* The two counting loops, then the thresholds.
evaluateRelevance(text) ==
  LET lowerText == toLowerCase(text)
      highMatches == Cardinality({k \in DOMAIN highKeywords : includes(lowerText, highKeywords[k])})
      mediumMatches ==
        Cardinality({k \in DOMAIN mediumKeywords : includes(lowerText, mediumKeywords[k])})
  IN IF highMatches >= 1 THEN "high"
     ELSE IF mediumMatches >= 2 THEN "medium"
     ELSE "low"

\* evaluateRelevance(cast.text) for each cast the hub can return.
castRelevance == [h \in Hashes |-> evaluateRelevance(CastText(h))]

\* ------------------------------------------------------------ hub responses
\* What the hub answers a read with: a status ("ok", an HTTP error, or an
\* exception of fetch or of response.json()) and, in hub order, the messages
\* of the body, each with its type and the hash of what it is about.
CastLists ==
  {l \in UNION {[1..n -> Hashes] : n \in 0..MaxLen} :
     \A i, j \in DOMAIN l : i # j => l[i] # l[j]}

castAdd(h) == [type |-> "MESSAGE_TYPE_CAST_ADD", hash |-> h]

\* The responses the cycles are run on: distinct cast-add messages, or a failure.
Responses ==
  {[status |-> "ok", messages |-> [i \in DOMAIN l |-> castAdd(l[i])]] : l \in CastLists}
    \cup {[status |-> "httpError", messages |-> <<>>]}

\* The loop over data.messages: messages of another type are dropped, a cast-add
\* is parsed into a cast.
RECURSIVE parseCastAdds(_)
parseCastAdds(messages) ==
  IF messages = <<>> THEN <<>>
  ELSE IF Head(messages).type # "MESSAGE_TYPE_CAST_ADD" THEN parseCastAdds(Tail(messages))
  ELSE <<Head(messages).hash>> \o parseCastAdds(Tail(messages))

RECURSIVE insertByTimestampDesc(_, _)
insertByTimestampDesc(c, sorted) ==
  IF sorted = <<>> THEN <<c>>
  ELSE IF CastTimestamp(Head(sorted)) <= CastTimestamp(c)
       THEN <<c>> \o sorted
       ELSE <<Head(sorted)>> \o insertByTimestampDesc(c, Tail(sorted))

\* Mutant: the casts are returned in hub order.
hubOrder(casts) == casts

\* casts.sort((a, b) => b.timestamp - a.timestamp), a stable sort.
RECURSIVE sortByTimestampDesc(_)
sortByTimestampDesc(casts) ==
  IF casts = <<>> THEN <<>>
  ELSE insertByTimestampDesc(Head(casts), sortByTimestampDesc(Tail(casts)))

\* casts.slice(0, limit), limit >= 0.
slice(casts, limit) ==
  IF Len(casts) <= limit THEN casts ELSE SubSeq(casts, 1, limit)

getMentions(resp, limit) ==
  IF resp.status # "ok" THEN <<>>
  ELSE slice(sortByTimestampDesc(parseCastAdds(resp.messages)), limit)

getChannelCasts(resp, limit) ==
  IF resp.status # "ok" THEN <<>> ELSE parseCastAdds(resp.messages)

\* ------------------------------------------------------------ decision loops
\* Mutant: the operands of the age are swapped.
castAgeReversed(c, t) == farcasterToUnix(CastTimestamp(c)) - t

\* Date.now() / 1000 - farcasterToUnix(cast.timestamp)
castAge(c, t) == t - farcasterToUnix(CastTimestamp(c))

\* Mutant: the self-interaction check is missing.
isOwnCastUnchecked(cfg, c) == FALSE

\* cast.fid === localConfig.fid
isOwnCast(cfg, c) == CastFid(c) = cfg.fid

\* likeCast reaches hubClient.likeCast only with a client and outside dry run.
likeCastDispatches(cfg, hc) == hc # "null" /\ ~cfg.dryRun

\* Mutant: a failed hubClient.likeCast is not caught.
likeCastRejecting(result) == IF result = "error" THEN "rejected" ELSE "resolved"

\* likeCast catches a failed hubClient.likeCast: it resolves either way.
likeCast(result) == "resolved"

commitReply(cfg, c) ==
  [cfg EXCEPT !.repliedToHashes = @ \cup {c}, !.dailyReplies = @ + 1]

commitLike(cfg, c) ==
  [cfg EXCEPT !.likedHashes = @ \cup {c}, !.dailyLikes = @ + 1]

\* The for-loop of respondToMentions over `casts` from index i, at wall clock
\* t, up to its next suspension: the result's i is the index of the cast whose
\* like is in flight, or 0 when the loop has ended.
RECURSIVE mentionLoop(_, _, _, _, _)
mentionLoop(cfg, casts, i, t, dispatches) ==
  IF i > Len(casts) THEN [cfg |-> cfg, i |-> 0]
  ELSE LET cast == casts[i] IN
    IF cast \in cfg.repliedToHashes THEN mentionLoop(cfg, casts, i + 1, t, dispatches)
    ELSE IF cfg.dailyReplies >= cfg.maxDailyReplies THEN [cfg |-> cfg, i |-> 0]
    ELSE IF isOwnCast(cfg, cast) THEN mentionLoop(cfg, casts, i + 1, t, dispatches)
    ELSE IF castAge(cast, t) > cfg.maxCastAge
         THEN mentionLoop(cfg, casts, i + 1, t, dispatches)
    ELSE IF dispatches THEN [cfg |-> cfg, i |-> i]
    ELSE mentionLoop(commitReply(cfg, cast), casts, i + 1, t, dispatches)

\* Mutant: every evaluated cast is liked, whatever its relevance.
worthLikingAnything(relevance) == TRUE

\* relevance === "high" || relevance === "medium"
worthLiking(relevance) == relevance \in {"high", "medium"}

\* The for-loop of scanChannelsForCasts, likewise.
RECURSIVE channelLoop(_, _, _, _, _)
channelLoop(cfg, casts, i, t, dispatches) ==
  IF i > Len(casts) THEN [cfg |-> cfg, i |-> 0]
  ELSE LET cast == casts[i] IN
    IF cfg.dailyLikes >= cfg.maxDailyLikes THEN [cfg |-> cfg, i |-> 0]
    ELSE IF isOwnCast(cfg, cast) THEN channelLoop(cfg, casts, i + 1, t, dispatches)
    ELSE IF cast \in cfg.likedHashes THEN channelLoop(cfg, casts, i + 1, t, dispatches)
    ELSE IF castAge(cast, t) > cfg.maxCastAge
         THEN channelLoop(cfg, casts, i + 1, t, dispatches)
    ELSE IF worthLiking(castRelevance[cast])
         THEN IF dispatches THEN [cfg |-> cfg, i |-> i]
              ELSE channelLoop(commitLike(cfg, cast), casts, i + 1, t, dispatches)
    ELSE channelLoop(cfg, casts, i + 1, t, dispatches)

\* ------------------------------------------------------------------ timers
Slots == {"warmup", "timer"}
Paths == {"mention", "channel"}

\* A cycle: where it is suspended, the list its loop walks and the index of the
\* cast whose like is in flight; idle, it keeps how the last hub call of its
\* previous run ended.
Cycle(pc, casts, i, last) == [pc |-> pc, casts |-> casts, i |-> i, last |-> last]

IdleCycle == Cycle("idle", <<>>, 0, "none")

\* The cast whose like the cycle in `slot` is waiting for.
inFlight(c) == c.casts[c.i]

NoLikes == [p \in Paths |-> [h \in Hashes |-> 0]]

\* The likes recorded since the last reset, when the ledger goes from cfg to next.
logAfterReset(cfg, next, log) ==
  IF cfg.lastResetDate # next.lastResetDate THEN NoLikes ELSE log

\* scheduleNext of startInteractionLoop: arms a one-shot timer and stores its handle.
interactionScheduleNext(armed) == armed \cup {"interaction"}

\* scheduleNext of startPostLoop.
postScheduleNext(armed) == armed \cup {"post"}

\* Mutant: a run whose last hub call failed rejects, and the callback never
\* reaches scheduleNext().
afterInteractionRunRejecting(result, armed) ==
  IF result = "error" THEN armed ELSE interactionScheduleNext(armed)

\* The timer callback of the interaction lane after `await runInteractionCycle()`:
\* the cycle catches its errors, so scheduleNext() runs whatever the last hub
\* call returned.
afterInteractionRun(result, armed) == interactionScheduleNext(armed)

\* -------------------------------------------------------------------- init
\* The module state before init runs.
ModuleLoaded ==
  /\ agentRuntime = Null
  /\ localConfig = Null
  /\ hubClient = "null"
  /\ hubApiClient = "null"
  /\ interactionTimer = "null"
  /\ postTimer = "null"
  /\ timers = {}
  /\ initPc = "fresh"
  /\ cycles = [s \in Slots |-> IdleCycle]
  /\ now = StartNow
  /\ ticks = 0
  /\ stopped = FALSE
  /\ likeLog = NoLikes

\* A hub whose likes can succeed or fail.
CtlInit == ModuleLoaded /\ likeOutcomes = {"ok", "error"}

\* The harness variables at rest.
EpochIdle == epochIn = 0 /\ epochOut = [op |-> "none", val |-> 0]
RelevanceIdle == relevanceIn = <<>> /\ relevanceOut = "none"
MentionsIdle ==
  /\ mentionsIn = [resp |-> [status |-> "ok", messages |-> <<>>], limit |-> 0]
  /\ mentionsOut = [returned |-> FALSE, casts |-> <<>>]

Init ==
  /\ CtlInit
  /\ EpochIdle
  /\ RelevanceIdle
  /\ MentionsIdle

\* localHubFarcasterPlugin.init without a runtime: logs and returns.
InitWithoutRuntime ==
  /\ initPc = "fresh"
  /\ initPc' = "returned"
  /\ UNCHANGED <<agentRuntime, localConfig, hubClient, hubApiClient, interactionTimer,
                 postTimer, timers, cycles, now, ticks, stopped, likeLog, likeOutcomes, harnessVars>>

\* initializeFarcaster up to `await hubApiClient.getInfo()`.
InitializeFarcaster ==
  /\ initPc = "fresh"
  /\ \E runtime \in Runtimes :
       LET cfg == buildConfig(runtime, now) IN
       /\ agentRuntime' = runtime
       /\ IF missingRequiredConfig(cfg)
          THEN /\ initPc' = "returned"
               /\ UNCHANGED <<localConfig, hubClient, hubApiClient>>
          ELSE /\ initPc' = "getInfo"
               /\ localConfig' = cfg
               /\ hubApiClient' = "client"
               /\ hubClient' = "client"
  /\ UNCHANGED <<interactionTimer, postTimer, timers, cycles, now, ticks, stopped,
                 likeLog, likeOutcomes, harnessVars>>

\* The loops initializeFarcaster starts once getInfo has answered.
startedLanes(cfg) ==
  (IF cfg.enableInteractions /\ ~cfg.dryRun THEN {"warmup"} ELSE {})
    \cup (IF cfg.enableDirectPosting /\ ~cfg.dryRun THEN postScheduleNext({}) ELSE {})

\* getInfo answers (hub info or null): initializeFarcaster starts the lanes.
InitializeResume ==
  /\ initPc = "getInfo"
  /\ \E hubInfo \in {"info", "null"} :
       /\ timers' = timers \cup startedLanes(localConfig)
       /\ postTimer' = IF "post" \in startedLanes(localConfig) THEN "handle" ELSE postTimer
  /\ initPc' = "done"
  /\ UNCHANGED <<agentRuntime, localConfig, hubClient, hubApiClient, interactionTimer,
                 cycles, now, ticks, stopped, likeLog, likeOutcomes, harnessVars>>

\* --------------------------------------------------------- interaction lane
\* runInteractionCycle up to `await hubApiClient.getMentions(...)`: the guard,
\* the daily reset, and the entry into respondToMentions.
runInteractionCycle(slot) ==
  LET cfg == resetDailyCountersIfNeeded(localConfig, now) IN
  /\ localConfig' = cfg
  /\ likeLog' = logAfterReset(localConfig, cfg, likeLog)
  /\ cycles' = [cycles EXCEPT ![slot] = Cycle("getMentions", <<>>, 0, "none")]

\* The warm-up timeout fires: runInteractionCycle() is started and not awaited,
\* and scheduleNext() arms the lane's first timer at once.
WarmupFire ==
  /\ "warmup" \in timers
  /\ runInteractionCycle("warmup")
  /\ timers' = interactionScheduleNext(timers \ {"warmup"})
  /\ interactionTimer' = "handle"
  /\ UNCHANGED <<agentRuntime, hubClient, hubApiClient, postTimer, initPc, now, ticks,
                 stopped, likeOutcomes, harnessVars>>

\* The lane's timer fires: the callback awaits runInteractionCycle().
InteractionTimerFire ==
  /\ "interaction" \in timers
  /\ runInteractionCycle("timer")
  /\ timers' = timers \ {"interaction"}
  /\ UNCHANGED <<agentRuntime, hubClient, hubApiClient, interactionTimer, postTimer,
                 initPc, now, ticks, stopped, likeOutcomes, harnessVars>>

\* respondToMentions from a point of its loop to its next suspension; when the
\* loop ends, scanChannelsForCasts picks a channel and awaits getChannelCasts.
continueMentions(slot, casts, r) ==
  /\ localConfig' = r.cfg
  /\ IF r.i # 0
     THEN /\ cycles' = [cycles EXCEPT ![slot] = Cycle("likeMention", casts, r.i, "none")]
          /\ likeLog' = [likeLog EXCEPT !["mention"][casts[r.i]] = @ + 1]
     ELSE /\ cycles' = [cycles EXCEPT ![slot] = Cycle("getChannelCasts", <<>>, 0, "none")]
          /\ UNCHANGED likeLog
  /\ UNCHANGED <<timers, interactionTimer>>

\* scanChannelsForCasts from a point of its loop to its next suspension; when
\* the loop ends the cycle is complete, and the timer callback that awaited it
\* calls scheduleNext().
continueChannel(slot, casts, r, result) ==
  /\ localConfig' = r.cfg
  /\ IF r.i # 0
     THEN /\ cycles' = [cycles EXCEPT ![slot] = Cycle("likeChannel", casts, r.i, "none")]
          /\ likeLog' = [likeLog EXCEPT !["channel"][casts[r.i]] = @ + 1]
          /\ UNCHANGED <<timers, interactionTimer>>
     ELSE /\ cycles' = [cycles EXCEPT ![slot] = Cycle("idle", <<>>, 0, result)]
          /\ UNCHANGED likeLog
          /\ IF slot = "timer"
             THEN /\ timers' = afterInteractionRun(result, timers)
                  /\ interactionTimer' = "handle"
             ELSE UNCHANGED <<timers, interactionTimer>>

\* getMentions answers.
GetMentionsReturn(slot) ==
  /\ cycles[slot].pc = "getMentions"
  /\ \E resp \in Responses :
       LET mentions == getMentions(resp, FetchLimit) IN
       continueMentions(slot, mentions,
         mentionLoop(localConfig, mentions, 1, now,
                     likeCastDispatches(localConfig, hubClient)))
  /\ UNCHANGED <<agentRuntime, hubClient, hubApiClient, postTimer, initPc, now, ticks,
                 stopped, likeOutcomes, harnessVars>>

\* hubClient.likeCast for a mention answers or fails: the reply reservation is
\* recorded and the loop goes on.
LikeMentionReturn(slot) ==
  /\ cycles[slot].pc = "likeMention"
  /\ \E result \in likeOutcomes :
       LET c == cycles[slot] IN
       IF likeCast(result) = "resolved"
       THEN continueMentions(slot, c.casts,
              mentionLoop(commitReply(localConfig, inFlight(c)), c.casts, c.i + 1, now,
                          likeCastDispatches(localConfig, hubClient)))
       ELSE \* caught by respondToMentions: the mention phase ends
            continueMentions(slot, c.casts, [cfg |-> localConfig, i |-> 0])
  /\ UNCHANGED <<agentRuntime, hubClient, hubApiClient, postTimer, initPc, now, ticks,
                 stopped, likeOutcomes, harnessVars>>

\* getChannelCasts answers.
GetChannelCastsReturn(slot) ==
  /\ cycles[slot].pc = "getChannelCasts"
  /\ \E resp \in Responses :
       LET casts == getChannelCasts(resp, FetchLimit) IN
       continueChannel(slot, casts,
         channelLoop(localConfig, casts, 1, now,
                     likeCastDispatches(localConfig, hubClient)),
         IF resp.status = "ok" THEN "ok" ELSE "error")
  /\ UNCHANGED <<agentRuntime, hubClient, hubApiClient, postTimer, initPc, now, ticks,
                 stopped, likeOutcomes, harnessVars>>

\* hubClient.likeCast for a channel cast answers or fails.
LikeChannelReturn(slot) ==
  /\ cycles[slot].pc = "likeChannel"
  /\ \E result \in likeOutcomes :
       LET c == cycles[slot] IN
       IF likeCast(result) = "resolved"
       THEN continueChannel(slot, c.casts,
              channelLoop(commitLike(localConfig, inFlight(c)), c.casts, c.i + 1, now,
                          likeCastDispatches(localConfig, hubClient)),
              result)
       ELSE \* caught by scanChannelsForCasts: the scan ends
            continueChannel(slot, c.casts, [cfg |-> localConfig, i |-> 0], result)
  /\ UNCHANGED <<agentRuntime, hubClient, hubApiClient, postTimer, initPc, now, ticks,
                 stopped, likeOutcomes, harnessVars>>

\* ------------------------------------------------------------- posting lane
\* Mutant: below the cap a post is published and counted.
generateAndPostPublishing(cfg, t) ==
  LET c == resetDailyCountersIfNeeded(cfg, t) IN
  IF c.dailyPosts >= c.maxDailyPosts THEN c ELSE [c EXCEPT !.dailyPosts = @ + 1]

\* generateAndPost: the daily reset, then the cap check; at the cap it returns,
\* below the cap it logs that posting needs an integration, and returns.
generateAndPost(cfg, t) ==
  LET c == resetDailyCountersIfNeeded(cfg, t) IN
  IF c.dailyPosts >= c.maxDailyPosts THEN c ELSE c

\* The posting timer fires: generateAndPost, then scheduleNext().
PostTimerFire ==
  /\ "post" \in timers
  /\ LET cfg == generateAndPost(localConfig, now) IN
       /\ localConfig' = cfg
       /\ likeLog' = logAfterReset(localConfig, cfg, likeLog)
  /\ timers' = postScheduleNext(timers \ {"post"})
  /\ postTimer' = "handle"
  /\ UNCHANGED <<agentRuntime, hubClient, hubApiClient, interactionTimer, initPc, cycles,
                 now, ticks, stopped, likeOutcomes, harnessVars>>

\* ----------------------------------------------------------------- cleanup
\* clearTimeout on the handle a module variable holds.
clearTimeout(handle, name, armed) == IF handle # "null" THEN armed \ {name} ELSE armed

\* Called once, on a controller that initializeFarcaster has started.
stopFarcaster ==
  /\ initPc = "done"
  /\ ~stopped
  /\ timers' = clearTimeout(postTimer, "post",
                 clearTimeout(interactionTimer, "interaction", timers))
  /\ interactionTimer' = "null"
  /\ postTimer' = "null"
  /\ stopped' = TRUE
  /\ UNCHANGED <<agentRuntime, localConfig, hubClient, hubApiClient, initPc, cycles, now,
                 ticks, likeLog, likeOutcomes, harnessVars>>

\* ------------------------------------------------------------------- clock
Tick ==
  /\ ticks < MaxTicks
  /\ ticks' = ticks + 1
  /\ now' = now + TickSeconds
  /\ UNCHANGED <<agentRuntime, localConfig, hubClient, hubApiClient, interactionTimer,
                 postTimer, timers, initPc, cycles, stopped, likeLog, likeOutcomes, harnessVars>>

Next ==
  \/ InitWithoutRuntime
  \/ InitializeFarcaster
  \/ InitializeResume
  \/ WarmupFire
  \/ InteractionTimerFire
  \/ \E slot \in Slots : GetMentionsReturn(slot)
  \/ \E slot \in Slots : LikeMentionReturn(slot)
  \/ \E slot \in Slots : GetChannelCastsReturn(slot)
  \/ \E slot \in Slots : LikeChannelReturn(slot)
  \/ PostTimerFire
  \/ stopFarcaster
  \/ Tick

Spec == Init /\ [][Next]_vars

\* The controller on a hub that fails every like.
FailingHubInit ==
  /\ ModuleLoaded
  /\ likeOutcomes = {"error"}
  /\ EpochIdle
  /\ RelevanceIdle
  /\ MentionsIdle

FailingHubSpec == FailingHubInit /\ [][Next]_vars

\* The steps of the cycle in `slot`: the answer of the hub call it awaits.
CycleStep(slot) ==
  \/ GetMentionsReturn(slot)
  \/ LikeMentionReturn(slot)
  \/ GetChannelCastsReturn(slot)
  \/ LikeChannelReturn(slot)

\* The controller while it is not stopped.
RunningNext ==
  \/ InitWithoutRuntime
  \/ InitializeFarcaster
  \/ InitializeResume
  \/ WarmupFire
  \/ InteractionTimerFire
  \/ \E slot \in Slots : CycleStep(slot)
  \/ PostTimerFire
  \/ Tick

\* A step of the timer-driven cycle. CycleStep("timer") is enabled exactly while
\* that cycle is in progress, and the steps that change a cycle in progress are
\* exactly its CycleSteps.
TimerCycleAdvances ==
  cycles["timer"].pc # "idle" /\ cycles'["timer"] # cycles["timer"]

\* The scheduling the event loop and the collaborators give a controller that
\* is not stopped: an armed interaction-lane timer fires, and every hub call of
\* a timer-driven cycle eventually answers or fails. The second condition is
\* WF_vars(CycleStep("timer")), written out on TimerCycleAdvances.
FairSpec ==
  /\ Init
  /\ [][RunningNext]_vars
  /\ WF_vars(WarmupFire \/ InteractionTimerFire)
  /\ \/ []<>(cycles["timer"].pc = "idle")
     \/ []<><<TimerCycleAdvances>>_vars

\* ---------------------------------------------------- epoch converter runs
\* The converters applied to an input, alone and composed both ways.
EpochInputs == (0 - MaxEpochInput) .. MaxEpochInput

EpochInit ==
  /\ CtlInit
  /\ epochIn \in EpochInputs
  /\ epochOut = [op |-> "none", val |-> 0]
  /\ RelevanceIdle
  /\ MentionsIdle

ApplyFarcasterToUnix ==
  /\ epochOut.op = "none"
  /\ epochOut' = [op |-> "farcasterToUnix", val |-> farcasterToUnix(epochIn)]
  /\ UNCHANGED <<ctlVars, epochIn, relevanceVars, mentionsVars>>

ApplyUnixToFarcaster ==
  /\ epochOut.op = "none"
  /\ epochOut' = [op |-> "unixToFarcaster", val |-> unixToFarcaster(epochIn)]
  /\ UNCHANGED <<ctlVars, epochIn, relevanceVars, mentionsVars>>

ApplyUnixRoundTrip ==
  /\ epochOut.op = "none"
  /\ epochOut' = [op |-> "farcasterToUnix(unixToFarcaster)",
                  val |-> farcasterToUnix(unixToFarcaster(epochIn))]
  /\ UNCHANGED <<ctlVars, epochIn, relevanceVars, mentionsVars>>

ApplyFarcasterRoundTrip ==
  /\ epochOut.op = "none"
  /\ epochOut' = [op |-> "unixToFarcaster(farcasterToUnix)",
                  val |-> unixToFarcaster(farcasterToUnix(epochIn))]
  /\ UNCHANGED <<ctlVars, epochIn, relevanceVars, mentionsVars>>

EpochNext ==
  \/ ApplyFarcasterToUnix
  \/ ApplyUnixToFarcaster
  \/ ApplyUnixRoundTrip
  \/ ApplyFarcasterRoundTrip

EpochSpec == EpochInit /\ [][EpochNext]_vars

\* ------------------------------------------------ relevance classifier runs
\* The texts the classifier is applied to: up to MaxFragments fragments, joined.
\* Keywords arise in mixed case, across fragment boundaries and repeated.
Fragments ==
  {<<"V", "o">>,
   <<"T", "E">>,
   <<"A", "i", "r", "D", "r", "o", "p">>,
   <<"D", "e", "F", "i">>,
   <<"w", "e", "b", "3">>,
   <<" ">>,
   <<"g", "m">>}

RECURSIVE join(_)
join(fragments) ==
  IF fragments = <<>> THEN <<>> ELSE Head(fragments) \o join(Tail(fragments))

Texts == {join(f) : f \in UNION {[1..n -> Fragments] : n \in 0..MaxFragments}}

RelevanceInit ==
  /\ CtlInit
  /\ EpochIdle
  /\ relevanceIn \in Texts
  /\ relevanceOut = "none"
  /\ MentionsIdle

ApplyEvaluateRelevance ==
  /\ relevanceOut = "none"
  /\ relevanceOut' = evaluateRelevance(relevanceIn)
  /\ UNCHANGED <<ctlVars, epochVars, relevanceIn, mentionsVars>>

RelevanceNext == ApplyEvaluateRelevance

RelevanceSpec == RelevanceInit /\ [][RelevanceNext]_vars

\* ------------------------------------------------------------ getMentions runs
\* The messages of a response body: cast-adds (also the same one twice), the
\* removal of a cast, and a message without data.
HubMessages ==
  {castAdd(h) : h \in Hashes}
    \cup {[type |-> "MESSAGE_TYPE_CAST_REMOVE", hash |-> "0xe5"],
          [type |-> "undefined", hash |-> "0xe5"]}

HubResponses ==
  [status : {"ok", "httpError", "exception"},
   messages : UNION {[1..n -> HubMessages] : n \in 0..MaxMessages}]

Limits == 0..MaxMessages

MentionsInit ==
  /\ CtlInit
  /\ EpochIdle
  /\ RelevanceIdle
  /\ mentionsIn \in [resp : HubResponses, limit : Limits]
  /\ mentionsOut = [returned |-> FALSE, casts |-> <<>>]

ApplyGetMentions ==
  /\ ~mentionsOut.returned
  /\ mentionsOut' = [returned |-> TRUE,
                     casts |-> getMentions(mentionsIn.resp, mentionsIn.limit)]
  /\ UNCHANGED <<ctlVars, epochVars, relevanceVars, mentionsIn>>

MentionsNext == ApplyGetMentions

MentionsSpec == MentionsInit /\ [][MentionsNext]_vars

\* ================================================================== claims
Initialized == localConfig # Null

LikePcs == {"likeMention", "likeChannel"}

\* C1: the daily counters never exceed their configured caps, also while two
\* interaction cycles overlap on a suspended hub call.
CountersWithinCaps ==
  Initialized =>
    /\ localConfig.dailyReplies <= localConfig.maxDailyReplies
    /\ localConfig.dailyLikes <= localConfig.maxDailyLikes

\* C2: between two daily resets each path dispatches at most one like per
\* cast hash, under every interleaving of interaction cycles.
AtMostOneLikePerHash ==
  \A p \in Paths : \A h \in Hashes : likeLog[p][h] <= 1

\* C3: once stopFarcaster() has returned, no timer of either lane is pending
\* and no interaction cycle is about to start.
StopIsTerminal == stopped => timers = {}

\* C4: a like is dispatched for a cast only if its age on the converted
\* timestamp, now - (timestamp + 1609459200), is at most maxCastAge at the
\* moment it is evaluated; and a hash enters a dedup set, and its counter
\* rises, only for a cast whose like was dispatched that way.
LikesOnlyFreshCasts ==
  [][Initialized =>
       /\ \A p \in Paths : \A h \in Hashes :
            likeLog'[p][h] > likeLog[p][h] =>
              now' - (CastTimestamp(h) + 1609459200) <= localConfig'.maxCastAge
       /\ \A h \in localConfig'.repliedToHashes \ localConfig.repliedToHashes :
            \E slot \in Slots :
              cycles[slot].pc = "likeMention" /\ inFlight(cycles[slot]) = h
       /\ \A h \in localConfig'.likedHashes \ localConfig.likedHashes :
            \E slot \in Slots :
              cycles[slot].pc = "likeChannel" /\ inFlight(cycles[slot]) = h
       /\ localConfig'.dailyReplies > localConfig.dailyReplies =>
            localConfig'.repliedToHashes # localConfig.repliedToHashes
            \/ \E slot \in Slots : cycles[slot].pc = "likeMention"
       /\ localConfig'.dailyLikes > localConfig.dailyLikes =>
            localConfig'.likedHashes # localConfig.likedHashes
            \/ \E slot \in Slots : cycles[slot].pc = "likeChannel"]_vars

\* A cycle walked past a cast older than maxCastAge and has a like in flight
\* for a later cast of the same list.
OldCastWalkedPast ==
  \E slot \in Slots :
    /\ cycles[slot].pc \in LikePcs
    /\ \E j \in 1..(cycles[slot].i - 1) :
         now - (CastTimestamp(cycles[slot].casts[j]) + 1609459200) > localConfig.maxCastAge

\* C5: when the daily reset runs on a ledger whose day label differs from the
\* current date, it leaves all three counters 0, both dedup sets empty and the
\* label equal to the current date, so a repeated reset check changes nothing.
ResetClearsLedger ==
  [][(/\ Initialized
      /\ \/ localConfig'.lastResetDate # localConfig.lastResetDate
         \/ /\ localConfig.lastResetDate # now \div 86400
            /\ \E slot \in Slots :
                 cycles[slot].pc = "idle" /\ cycles'[slot].pc = "getMentions")
     => /\ localConfig'.dailyReplies = 0
        /\ localConfig'.dailyLikes = 0
        /\ localConfig'.dailyPosts = 0
        /\ localConfig'.repliedToHashes = {}
        /\ localConfig'.likedHashes = {}
        /\ localConfig'.lastResetDate = now' \div 86400
        /\ resetDailyCountersIfNeeded(localConfig', now') = localConfig']_vars

\* The reset has run on a later day while a like dispatched before it is
\* still in flight.
ResetHasRun ==
  /\ Initialized
  /\ localConfig.lastResetDate = now \div 86400
  /\ localConfig.lastResetDate # StartNow \div 86400
  /\ likeLog = NoLikes
  /\ \E slot \in Slots : cycles[slot].pc \in LikePcs

\* C6: no like is dispatched for a cast written by the configured identity,
\* from either path, and such a cast enters no dedup set.
NoSelfLike ==
  Initialized =>
    \A h \in Hashes :
      CastFid(h) = localConfig.fid =>
        /\ \A p \in Paths : likeLog[p][h] = 0
        /\ h \notin localConfig.repliedToHashes
        /\ h \notin localConfig.likedHashes
        /\ \A slot \in Slots :
             cycles[slot].pc \in LikePcs => inFlight(cycles[slot]) # h

\* Each path walked past a cast of the configured identity: a like is in
\* flight for a later cast of the list.
OwnCastWalkedPast ==
  \A pc \in LikePcs :
    \E slot \in Slots :
      /\ cycles[slot].pc = pc
      /\ \E j \in 1..(cycles[slot].i - 1) : CastFid(cycles[slot].casts[j]) = localConfig.fid

\* C7: with dry run enabled no write is ever dispatched to the write
\* collaborator, whatever enable-interactions and enable-posting say.
DryRunDispatchesNothing ==
  (agentRuntime # Null /\ agentRuntime.FARCASTER_DRY_RUN = "true") =>
    /\ likeLog = NoLikes
    /\ \A slot \in Slots : cycles[slot].pc \notin LikePcs

\* Initialization has completed in dry run with both lanes enabled, on a later day.
DryRunInitialized ==
  /\ initPc = "done"
  /\ agentRuntime.FARCASTER_DRY_RUN = "true"
  /\ localConfig.enableInteractions
  /\ localConfig.enableDirectPosting
  /\ ticks = MaxTicks

\* C8: if FARCASTER_FID or FARCASTER_PRIVATE_KEY is missing at initialization
\* the controller never starts: no configuration, no collaborator, no timer,
\* no cycle and no hub call.
MissingConfigNeverStarts ==
  (agentRuntime # Null
     /\ (agentRuntime.FARCASTER_FID \in {"", "0"} \/ agentRuntime.FARCASTER_PRIVATE_KEY = ""))
  => /\ localConfig = Null
     /\ hubClient = "null"
     /\ hubApiClient = "null"
     /\ interactionTimer = "null"
     /\ postTimer = "null"
     /\ timers = {}
     /\ initPc = "returned"
     /\ \A slot \in Slots : cycles[slot] = IdleCycle
     /\ likeLog = NoLikes

\* initializeFarcaster has returned on a runtime with an identity and no credential.
CredentialMissing ==
  /\ initPc = "returned"
  /\ agentRuntime # Null
  /\ agentRuntime.FARCASTER_FID = "7"
  /\ agentRuntime.FARCASTER_PRIVATE_KEY = ""

InteractionLaneStarted ==
  initPc = "done" /\ localConfig.enableInteractions /\ ~localConfig.dryRun

PostLaneStarted ==
  initPc = "done" /\ localConfig.enableDirectPosting /\ ~localConfig.dryRun

\* C9: while the controller is not stopped and every hub call answers or
\* fails, each lane keeps running: after every run, failed or not, a fresh
\* timer of the lane is armed.
LanesKeepRunning ==
  /\ [](InteractionLaneStarted => <>("interaction" \in timers))
  /\ [](PostLaneStarted => "post" \in timers)

\* A timer-driven run whose last hub call failed has ended and the lane's next
\* timer is armed.
RearmedAfterFailure ==
  /\ cycles["timer"].pc = "idle"
  /\ cycles["timer"].last = "error"
  /\ "interaction" \in timers

\* C10: farcasterToUnix(t) = t + 1609459200 and unixToFarcaster is its exact
\* inverse, for every integer t, negative ones included.
EpochConversionExact ==
  /\ epochOut.op = "farcasterToUnix" => epochOut.val = epochIn + 1609459200
  /\ epochOut.op = "unixToFarcaster" => epochOut.val + 1609459200 = epochIn
  /\ epochOut.op = "farcasterToUnix(unixToFarcaster)" => epochOut.val = epochIn
  /\ epochOut.op = "unixToFarcaster(farcasterToUnix)" => epochOut.val = epochIn
  /\ (epochOut.op = "farcasterToUnix" /\ epochIn = 0) => epochOut.val = 1609459200

\* A negative timestamp has gone through the round trip.
NegativeRoundTrip ==
  /\ epochIn < 0
  /\ epochOut.op = "farcasterToUnix(unixToFarcaster)"

\* The character c is the letter l, in either case.
SameLetter(c, l) ==
  c = l \/ \E k \in DOMAIN LowerCaseLetters : LowerCaseLetters[k] = l /\ UpperCaseLetters[k] = c

\* The keyword occurs in the text as a substring, case-insensitively.
ContainsIgnoringCase(text, kw) ==
  \E o \in 0..(Len(text) - Len(kw)) :
    \A k \in 1..Len(kw) : SameLetter(text[o + k], kw[k])

HighTier == {highKeywords[k] : k \in DOMAIN highKeywords}
MediumTier == {mediumKeywords[k] : k \in DOMAIN mediumKeywords}

\* C11: the classifier returns "high" iff the text contains at least one
\* high-tier keyword (as a substring, case-insensitively), however many
\* medium-tier keywords match; otherwise "medium" iff it contains at least two
\* distinct medium-tier keywords; otherwise "low".
RelevanceByTier ==
  relevanceOut # "none" =>
    LET high == \E kw \in HighTier : ContainsIgnoringCase(relevanceIn, kw)
        medium == {kw \in MediumTier : ContainsIgnoringCase(relevanceIn, kw)}
    IN /\ relevanceOut = "high" <=> high
       /\ relevanceOut = "medium" <=> (~high /\ Cardinality(medium) >= 2)
       /\ relevanceOut = "low" <=> (~high /\ Cardinality(medium) <= 1)

\* A text with exactly one medium-tier keyword, twice and in mixed case, and no
\* high-tier keyword has been classified.
OneMediumKeywordClassified ==
  /\ relevanceOut # "none"
  /\ Len(relevanceIn) = 14
  /\ {kw \in MediumTier : ContainsIgnoringCase(relevanceIn, kw)} = {<<"a", "i", "r", "d", "r", "o", "p">>}
  /\ ~\E kw \in HighTier : ContainsIgnoringCase(relevanceIn, kw)

\* How often x occurs in the sequence q.
Occurrences(q, x) == Cardinality({i \in DOMAIN q : q[i] = x})

\* C12: getMentions returns at most `limit` casts, ordered by non-increasing
\* timestamp, each one the cast of a cast-add message of the response; on an
\* HTTP error or an exception it returns the empty sequence.
MentionsNewestFirstWithinLimit ==
  mentionsOut.returned =>
    LET out == mentionsOut.casts
        resp == mentionsIn.resp
    IN /\ Len(out) <= mentionsIn.limit
       /\ \A i, j \in DOMAIN out :
            i < j => CastTimestamp(out[i]) >= CastTimestamp(out[j])
       /\ \A i \in DOMAIN out :
            Occurrences(out, out[i]) <=
              Occurrences(resp.messages, [type |-> "MESSAGE_TYPE_CAST_ADD", hash |-> out[i]])
       /\ resp.status # "ok" => out = <<>>

\* getMentions has returned on a response that lists an older cast before a
\* newer one, a message that is no cast-add, and more cast-adds than the limit.
MentionsSortedFilteredCut ==
  /\ mentionsOut.returned
  /\ mentionsIn.resp.status = "ok"
  /\ mentionsIn.limit = 1
  /\ Len(mentionsIn.resp.messages) = 3
  /\ mentionsIn.resp.messages[1] = castAdd("0xd4")
  /\ mentionsIn.resp.messages[2].type = "MESSAGE_TYPE_CAST_REMOVE"
  /\ mentionsIn.resp.messages[3] = castAdd("0xb2")
  /\ mentionsOut.casts = <<"0xb2">>

\* C13: the reservation of an item is committed in the step that dispatches
\* its like: when hubClient.likeCast is called for a cast, its hash is already
\* in the dedup set of the path.
ReservationCommittedBeforeDispatch ==
  [][\A h \in Hashes :
       /\ likeLog'["mention"][h] > likeLog["mention"][h] =>
            h \in localConfig'.repliedToHashes
       /\ likeLog'["channel"][h] > likeLog["channel"][h] =>
            h \in localConfig'.likedHashes]_vars

\* C14: a lane arms its next timer only after its current run has completed,
\* so at most one interaction cycle is in progress at any time, the run after
\* the warm-up delay included.
AtMostOneCycleInProgress ==
  /\ Cardinality({slot \in Slots : cycles[slot].pc # "idle"}) <= 1
  /\ "interaction" \in timers => \A slot \in Slots : cycles[slot].pc = "idle"

\* C15: whenever a step commits a reservation or dispatches a like, the
\* ledger's day label is the current calendar date, also when the day changed
\* while the cycle was suspended on a hub call.
DayLabelCurrentAtDecision ==
  [][(/\ Initialized
      /\ \/ localConfig'.dailyReplies > localConfig.dailyReplies
         \/ localConfig'.dailyLikes > localConfig.dailyLikes
         \/ \E p \in Paths : \E h \in Hashes : likeLog'[p][h] > likeLog[p][h])
     => localConfig.lastResetDate = now \div 86400]_vars

\* C16: the continuation of a cycle that was suspended on a hub call when
\* stopFarcaster() ran dispatches no like, changes no counter and no dedup
\* set, and arms no timer. (After stopFarcaster, interactionTimer is null
\* until a scheduleNext() runs, so a cycle in progress then was suspended
\* when the controller stopped.)
ContinuationAfterStopIsNoOp ==
  [][(/\ stopped
      /\ interactionTimer = "null"
      /\ \E slot \in Slots : cycles[slot].pc # "idle" /\ cycles'[slot] # cycles[slot])
     => /\ likeLog' = likeLog
        /\ localConfig' = localConfig
        /\ timers' = timers]_vars

\* C20: in every reachable state each dedup-gated counter equals the size of
\* its dedup set: dailyReplies = |repliedToHashes| and dailyLikes = |likedHashes|.
CountersMatchDedupSets ==
  Initialized =>
    /\ localConfig.dailyReplies = Cardinality(localConfig.repliedToHashes)
    /\ localConfig.dailyLikes = Cardinality(localConfig.likedHashes)

\* C18: a channel item classified "low" consumes no reservation: no like is
\* dispatched for it on the channel path, its hash never enters likedHashes,
\* and dailyLikes rises only, and by one, on the return of the like of an item
\* that is not "low".
LowItemConsumesNothing ==
  [][Initialized =>
       /\ \A h \in Hashes :
            castRelevance[h] = "low" =>
              /\ likeLog'["channel"][h] = 0
              /\ h \notin localConfig'.likedHashes
              /\ \A slot \in Slots :
                   cycles'[slot].pc = "likeChannel" => inFlight(cycles'[slot]) # h
       /\ localConfig'.dailyLikes > localConfig.dailyLikes =>
            /\ localConfig'.dailyLikes = localConfig.dailyLikes + 1
            /\ \E slot \in Slots :
                 /\ cycles[slot].pc = "likeChannel"
                 /\ cycles'[slot] # cycles[slot]
                 /\ castRelevance[inFlight(cycles[slot])] # "low"]_vars

\* A channel scan walked past a fresh "low" cast of another author and has a
\* like in flight for a later cast of the list.
LowCastWalkedPast ==
  \E slot \in Slots :
    /\ cycles[slot].pc = "likeChannel"
    /\ \E j \in 1..(cycles[slot].i - 1) :
         LET c == cycles[slot].casts[j] IN
         /\ castRelevance[c] = "low"
         /\ CastFid(c) # localConfig.fid
         /\ now - (CastTimestamp(c) + 1609459200) <= localConfig.maxCastAge

\* C19: a posting-lane tick changes nothing but what the daily reset changes:
\* no like is dispatched, no counter rises, no hash enters a dedup set, and
\* dailyPosts is 0 in every state, at the post cap or below it.
PostingTickDoesNothing ==
  [][/\ localConfig' # Null => localConfig'.dailyPosts = 0
     /\ (/\ "post" \in timers
         /\ cycles' = cycles
         /\ now' = now
         /\ stopped' = stopped
         /\ initPc' = initPc)
        => /\ timers' = timers
           /\ \/ localConfig' = localConfig /\ likeLog' = likeLog
              \/ /\ localConfig.lastResetDate # now \div 86400
                 /\ likeLog' = NoLikes
                 /\ localConfig' = [localConfig EXCEPT !.dailyReplies = 0,
                                                      !.dailyLikes = 0,
                                                      !.dailyPosts = 0,
                                                      !.repliedToHashes = {},
                                                      !.likedHashes = {},
                                                      !.lastResetDate = now \div 86400]]_vars

\* The posting lane alone is running with its cap already reached
\* (maxDailyPosts = 0), and one of its ticks has run on a later day.
PostingTickAtCap ==
  /\ PostLaneStarted
  /\ ~localConfig.enableInteractions
  /\ localConfig.maxDailyPosts = 0
  /\ localConfig.lastResetDate # StartNow \div 86400

\* The mention would be liked by a loop that reaches it with ledger cfg at time t.
MentionEligible(cfg, h, t) ==
  /\ h \notin cfg.repliedToHashes
  /\ CastFid(h) # cfg.fid
  /\ t - (CastTimestamp(h) + 1609459200) <= cfg.maxCastAge

\* The channel cast would be liked by a scan that reaches it.
ChannelEligible(cfg, h, t) ==
  /\ h \notin cfg.likedHashes
  /\ CastFid(h) # cfg.fid
  /\ t - (CastTimestamp(h) + 1609459200) <= cfg.maxCastAge
  /\ castRelevance[h] # "low"

\* The least element of a non-empty set of indices.
First(indices) == CHOOSE j \in indices : \A k \in indices : j <= k

RECURSIVE likesDispatched(_, _)
likesDispatched(log, hashes) ==
  IF hashes = {} THEN 0
  ELSE LET h == CHOOSE x \in hashes : TRUE IN
       log["mention"][h] + log["channel"][h] + likesDispatched(log, hashes \ {h})

\* C21: between two daily resets the likes dispatched to hubClient.likeCast,
\* those on mentions and those on channel casts counted together, never
\* exceed maxDailyLikes.
TotalLikesWithinCap ==
  Initialized => likesDispatched(likeLog, Hashes) <= localConfig.maxDailyLikes

\* C22: between two daily resets a cast that has had a like dispatched on one
\* path gets none on the other: no hash is liked both as a mention and as a
\* channel cast.
LikedThroughOnePathOnly ==
  \A h \in Hashes : ~(likeLog["mention"][h] > 0 /\ likeLog["channel"][h] > 0)

====
